---- MODULE Spec2Model ----
(***************************************************************************)
(* A model of tonet's checkpoint StateManager                              *)
(* (tonet/data_processor/state_manager.py) acting on the weights           *)
(* directory, and of the percentage-gated Augmentation classes             *)
(* (tonet/data_conveyor/augmentations.py).                                 *)
(*                                                                         *)
(* Spec    : the StateManager and the files of the weights directory.      *)
(* SpecAug : construction, get_config() and __call__ of the augmentations. *)
(***************************************************************************)
EXTENDS Integers, Sequences, FiniteSets, TLC

VARIABLES
    fs,         \* the weights directory: path -> file value
    alive,      \* TRUE once a StateManager has been constructed
    preffix,    \* StateManager.__preffix: <<>> is None, <<s>> the string s
    files,      \* StateManager.__files: dict, logical name -> path
    last,       \* history: the most recent operation and the error it raised
    snap,       \* history: raw contents archived by the pack() that just succeeded
    kept,       \* history: archive of the last successful pack(), through failed packs
    aug,        \* the Augmentation object under study
    config,     \* the configuration the object was constructed from
    got,        \* what get_config() returned, when it was the latest operation
    call        \* the __call__ made last, when it was the latest operation:
                \* item, draw, branch taken, result

smVars == <<fs, alive, preffix, files, last, snap, kept>>
augVars == <<aug, config, got, call>>
vars == <<fs, alive, preffix, files, last, snap, kept, aug, config, got, call>>

(***************************************************************************)
(* Bounds                                                                  *)
(***************************************************************************)
\* file contents written by the trainer are drawn from 1..MaxContent
MaxContent == 1

\* images have 1..MaxDim rows and columns
MaxDim == 2

(***************************************************************************)
(* The filesystem                                                          *)
(***************************************************************************)
\* os.path.join(dir, name), os.path.basename(path), path + suffix
join(dir, name) == <<dir, name>>
basename(path) == path[2]
suffixed(path, suffix) == <<path[1], path[2] \o suffix>>

\* FileStructManager: the external path manager
weights_dir == "weights"
weights_file == join(weights_dir, "weights.pth")
optimizer_state_file == join(weights_dir, "state.pth")

\* caller-supplied prefixes: None, or a string
None == <<>>
Prefixes == {None, <<"prev_start">>}

\* StateManager.__construct_result_file
construct_result_file(pfx) ==
    join(weights_dir, (IF pfx # None THEN pfx[1] \o "_" ELSE "") \o "state.zip")

\* bytes the trainer writes to the weights file, and to the optimizer state
WeightsContents == 1..MaxContent
StateContents == {MaxContent + c : c \in 1..MaxContent}

\* file values: nothing at the path, a raw artifact, or a zip archive whose
\* members are <<member name, content>> pairs
Absent == [kind |-> "absent", data |-> 0, members |-> {}]
Raw(c) == [kind |-> "raw", data |-> c, members |-> {}]
Zip(m) == [kind |-> "zip", data |-> 0, members |-> m]

\* the paths of the weights directory the operations can touch
Paths ==
    {weights_file, optimizer_state_file}
    \cup {construct_result_file(p) : p \in Prefixes \cup {<<"prev_start">>}}
    \cup {suffixed(construct_result_file(p), ".old") :
              p \in Prefixes \cup {<<"prev_start">>}}

\* os.path.exists(file) and os.path.isfile(file)
isfile(f, file) == file \in DOMAIN f /\ f[file].kind # "absent"

\* rm_file (nested in pack and clear_files)
rm_file(f, file) ==
    IF isfile(f, file) THEN [f EXCEPT ![file] = Absent] ELSE f

rename_file_norename(f, file) ==
    rm_file(f, suffixed(file, ".old"))

\* rename_file (nested in pack)
rename_file(f, file) ==
    LET target == suffixed(file, ".old")
        f1 == rm_file(f, target)
    IN  IF isfile(f1, file)
        THEN [f1 EXCEPT ![target] = f1[file], ![file] = Absent]
        ELSE f1

\* ZipFile.write(filename, arcname) on the archive open at path zf
zip_write(f, zf, filename, arcname) ==
    [f EXCEPT ![zf] = Zip(@.members \cup {<<arcname, f[filename].data>>})]

pack_rm_always(f, pfx) ==
    LET result_file == construct_result_file(pfx)
        f1 == [rename_file(f, result_file) EXCEPT ![result_file] = Zip({})]
        f2 == IF isfile(f1, weights_file)
              THEN zip_write(f1, result_file, weights_file, basename(weights_file))
              ELSE f1
        f3 == IF isfile(f2, weights_file) /\ isfile(f2, optimizer_state_file)
              THEN zip_write(f2, result_file, optimizer_state_file,
                             basename(optimizer_state_file))
              ELSE f2
    IN  [fs  |-> rm_file(rm_file(f3, weights_file), optimizer_state_file),
         err |-> IF isfile(f, weights_file) /\ isfile(f, optimizer_state_file)
                 THEN "none" ELSE "FileNotFoundError"]

pack_swapped(f, pfx) ==
    LET result_file == construct_result_file(pfx)
        f1 == [rename_file(f, result_file) EXCEPT ![result_file] = Zip({})]
    IN  IF ~isfile(f1, weights_file)
        THEN [fs |-> f1, err |-> "FileNotFoundError"]
        ELSE LET f2 == zip_write(f1, result_file, weights_file,
                                 basename(optimizer_state_file))
             IN  IF ~isfile(f2, optimizer_state_file)
                 THEN [fs |-> f2, err |-> "FileNotFoundError"]
                 ELSE LET f3 == zip_write(f2, result_file, optimizer_state_file,
                                          basename(weights_file))
                      IN  [fs  |-> rm_file(rm_file(f3, weights_file),
                                           optimizer_state_file),
                           err |-> "none"]

\* StateManager.pack: the filesystem it leaves and the error it raises.
\* ZipFile(result_file, 'w') creates the archive when it is opened and
\* closes it as a valid archive of the members written so far when
\* ZipFile.write raises on a missing source file.
pack(f, pfx) ==
    LET result_file == construct_result_file(pfx)
        f1 == [rename_file(f, result_file) EXCEPT ![result_file] = Zip({})]
    IN  IF ~isfile(f1, weights_file)
        THEN [fs |-> f1, err |-> "FileNotFoundError"]
        ELSE LET f2 == zip_write(f1, result_file, weights_file,
                                 basename(weights_file))
             IN  IF ~isfile(f2, optimizer_state_file)
                 THEN [fs |-> f2, err |-> "FileNotFoundError"]
                 ELSE LET f3 == zip_write(f2, result_file, optimizer_state_file,
                                          basename(optimizer_state_file))
                      IN  [fs  |-> rm_file(rm_file(f3, weights_file),
                                           optimizer_state_file),
                           err |-> "none"]

\* ZipFile.extractall(path): every member is written under path, overwriting
extractall(f, zf, path) ==
    [p \in DOMAIN f |->
        IF \E m \in f[zf].members : join(path, m[1]) = p
        THEN Raw((CHOOSE m \in f[zf].members : join(path, m[1]) = p)[2])
        ELSE f[p]]

\* the dict unpack() records, before it opens the archive
unpack_files ==
    [weights_file |-> join(weights_dir, "weights.pth"),
     state_file   |-> join(weights_dir, "state.pth")]

\* StateManager.unpack: the filesystem it leaves and the error it raises
unpack(f, pfx) ==
    LET result_file == construct_result_file(pfx)
    IN  IF ~isfile(f, result_file)
        THEN [fs |-> f, err |-> "FileNotFoundError"]
        ELSE IF f[result_file].kind # "zip"
        THEN [fs |-> f, err |-> "BadZipFile"]
        ELSE [fs |-> extractall(f, result_file, weights_dir), err |-> "none"]

\* StateManager.get_files
get_files == files

(***************************************************************************)
(* StateManager: operations                                                *)
(***************************************************************************)
\* history records: the operation, the error it raised ("none": it returned),
\* the prefix given to __init__, and whether a successful pack() came just before
Hist(op, err, arg) ==
    [op |-> op, err |-> err, arg |-> arg,
     afterPack |-> last.op = "pack" /\ last.err = "none"]
NoHist == [op |-> "none", err |-> "none", arg |-> None, afterPack |-> FALSE]
NoSnap == <<0, 0>>

\* the trainer saves the model weights / the optimizer state
WriteWeights(c) ==
    /\ fs' = [fs EXCEPT ![weights_file] = Raw(c)]
    /\ last' = Hist("write", "none", None)
    /\ snap' = NoSnap
    /\ kept' = Absent
    /\ UNCHANGED <<alive, preffix, files, augVars>>

WriteState(c) ==
    /\ fs' = [fs EXCEPT ![optimizer_state_file] = Raw(c)]
    /\ last' = Hist("write", "none", None)
    /\ snap' = NoSnap
    /\ kept' = Absent
    /\ UNCHANGED <<alive, preffix, files, augVars>>

init_prefix_kept(pfx) == <<"prev_start">>

\* the prefix __init__ leaves behind
init_prefix(pfx) == pfx

\* StateManager.__init__(file_struct_manager, preffix)
Construct(pfx) ==
    /\ alive' = TRUE
    /\ files' = <<>>
    /\ IF isfile(fs, weights_file) /\ isfile(fs, optimizer_state_file)
       THEN fs' = pack(fs, <<"prev_start">>).fs
       ELSE fs' = fs
    /\ preffix' = init_prefix(pfx)
    /\ last' = Hist("init", "none", pfx)
    /\ snap' = NoSnap
    /\ kept' = Absent
    /\ UNCHANGED augVars

\* StateManager.pack()
Pack ==
    /\ alive
    /\ LET r == pack(fs, preffix)
       IN  /\ fs' = r.fs
           /\ last' = Hist("pack", r.err, None)
           /\ snap' = IF r.err = "none"
                      THEN <<fs[weights_file].data, fs[optimizer_state_file].data>>
                      ELSE NoSnap
           /\ kept' = IF r.err = "none"
                      THEN r.fs[construct_result_file(preffix)]
                      ELSE kept
    /\ UNCHANGED <<alive, preffix, files, augVars>>

\* StateManager.unpack()
Unpack ==
    /\ alive
    /\ LET r == unpack(fs, preffix)
       IN  /\ fs' = r.fs
           /\ last' = Hist("unpack", r.err, None)
    /\ files' = unpack_files
    /\ snap' = IF last.op = "pack" /\ last.err = "none" THEN snap ELSE NoSnap
    /\ kept' = Absent
    /\ UNCHANGED <<alive, preffix, augVars>>

\* StateManager.clear_files(): raises KeyError on an empty dict
ClearFiles ==
    /\ alive
    /\ IF "weights_file" \notin DOMAIN files
       THEN /\ last' = Hist("clear_files", "KeyError", None)
            /\ UNCHANGED <<fs, files>>
       ELSE /\ fs' = rm_file(rm_file(fs, files["weights_file"]), files["state_file"])
            /\ files' = <<>>
            /\ last' = Hist("clear_files", "none", None)
    /\ snap' = NoSnap
    /\ kept' = Absent
    /\ UNCHANGED <<alive, preffix, augVars>>


(***************************************************************************)
(* Augmentations                                                           *)
(***************************************************************************)
\* configuration values: a number, or a list of numbers
Scalar(n) == [list |-> FALSE, v |-> <<n>>]
List(q) == [list |-> TRUE, v |-> q]

\* configured percentages the model constructs augmentations with
Percents == {0, 50, 100}

\* dict.update: the keys of b override those of a
update(a, b) ==
    [k \in DOMAIN a \cup DOMAIN b |-> IF k \in DOMAIN b THEN b[k] ELSE a[k]]

\* Augmentation._get_config_path
get_config_path(cfg, aug_name) == cfg[aug_name]

\* Augmentation.__init__, followed by the attributes the subclass reads
Augmentation(cfg, aug_name, attr_names) ==
    [name       |-> aug_name,
     percentage |-> get_config_path(cfg, aug_name)["percentage"],
     attrs      |-> [a \in attr_names |-> get_config_path(cfg, aug_name)[a]]]

Forced_configured(obj) == obj

\* self._percentage = 100 in Resize, Normalize and ToPyTorch
Forced(obj) == [obj EXCEPT !.percentage = Scalar(100)]

HorizontalFlip(cfg) == Augmentation(cfg, "hflip", {})
VerticalFlip(cfg) == Augmentation(cfg, "vflip", {})
GaussNoise(cfg) == Augmentation(cfg, "gauss_noise", {"mean", "var", "interval"})
SNPNoise(cfg) == Augmentation(cfg, "snp_noise", {"s_vs_p", "amount"})
Blur(cfg) == Augmentation(cfg, "blur", {"ksize"})
Resize(cfg) == Forced(Augmentation(cfg, "resize", {"size"}))
CentralCrop(cfg) == Augmentation(cfg, "ccrop", {"size"})
RandomCrop(cfg) == Augmentation(cfg, "rcrop", {"size"})
RandomRotate(cfg) == Augmentation(cfg, "rrotate", {"interval"})
RandomBrightness(cfg) == Augmentation(cfg, "rbrightness", {"interval"})
RandomContrast(cfg) == Augmentation(cfg, "rcontrast", {"interval"})
Normalize(cfg) == Forced(Augmentation(cfg, "normalize", {}))
ToPyTorch(cfg) == Forced(Augmentation(cfg, "to_pytorch", {}))

AugNames ==
    {"hflip", "vflip", "gauss_noise", "snp_noise", "blur", "resize", "ccrop",
     "rcrop", "rrotate", "to_pytorch", "normalize", "rbrightness", "rcontrast"}

\* augmentations_dict[name](config)
augmentations_dict(name, cfg) ==
    CASE name = "hflip" -> HorizontalFlip(cfg)
      [] name = "vflip" -> VerticalFlip(cfg)
      [] name = "gauss_noise" -> GaussNoise(cfg)
      [] name = "snp_noise" -> SNPNoise(cfg)
      [] name = "blur" -> Blur(cfg)
      [] name = "resize" -> Resize(cfg)
      [] name = "ccrop" -> CentralCrop(cfg)
      [] name = "rcrop" -> RandomCrop(cfg)
      [] name = "rrotate" -> RandomRotate(cfg)
      [] name = "to_pytorch" -> ToPyTorch(cfg)
      [] name = "normalize" -> Normalize(cfg)
      [] name = "rbrightness" -> RandomBrightness(cfg)
      [] name = "rcontrast" -> RandomContrast(cfg)

\* the _get_config of each subclass: its attributes under their config keys
internal_get_config(obj) == obj.attrs

\* Augmentation.get_percetage
get_percetage(obj) == obj.percentage

\* Augmentation.get_name
get_name(obj) == obj.name

get_config_noparams(obj) ==
    get_name(obj) :> [percentage |-> get_percetage(obj)]

\* Augmentation.get_config
get_config(obj) ==
    get_name(obj) :> update([percentage |-> get_percetage(obj)],
                            internal_get_config(obj))

\* the parameter mappings each configuration key is constructed with
SizeValues ==
    {Scalar(n) : n \in 1..MaxDim} \cup {List(<<w, h>>) : w, h \in {1, MaxDim}}
ParamSets(name) ==
    CASE name \in {"hflip", "vflip", "normalize", "to_pytorch"} -> {<<>>}
      [] name = "gauss_noise" ->
            {[mean |-> Scalar(0), var |-> Scalar(1), interval |-> Scalar(10)]}
      [] name = "snp_noise" -> {[s_vs_p |-> Scalar(1), amount |-> Scalar(2)]}
      [] name = "blur" -> {[ksize |-> List(<<3, 3>>)]}
      [] name \in {"resize", "ccrop", "rcrop"} -> {[size |-> z] : z \in SizeValues}
      [] name = "rrotate" -> {[interval |-> List(<<0, 0>>)], [interval |-> List(<<0, 1>>)]}
      [] name = "rbrightness" -> {[interval |-> List(<<8, 9>>)]}
      [] name = "rcontrast" -> {[interval |-> List(<<50, 150>>)]}
Fragments(name) ==
    {update([percentage |-> Scalar(p)], q) : p \in Percents, q \in ParamSets(name)}

\* images: rows of pixels, and the library operations applied whose result
\* the model does not compute
Pixel(y, x) == (83 * y + 41 * x) % 256
Image(h, w) == [y \in 1..h |-> [x \in 1..w |-> Pixel(y, x)]]
Items == {[px |-> Image(h, MaxDim), ops |-> <<>>] : h \in {1, MaxDim}}

Reverse(q) == [i \in 1..Len(q) |-> q[Len(q) + 1 - i]]
Min(a, b) == IF a < b THEN a ELSE b
Max(a, b) == IF a > b THEN a ELSE b

\* q[a:b] as Python slices a sequence
PySlice(q, a, b) ==
    LET n == Len(q)
        lo == IF a < 0 THEN Max(a + n, 0) ELSE Min(a, n)
        hi == IF b < 0 THEN Max(b + n, 0) ELSE Min(b, n)
    IN  IF lo < hi THEN SubSeq(q, lo + 1, hi) ELSE <<>>

\* data[y1: y2, x1: x2, :]
Window(data, y1, y2, x1, x2) ==
    [data EXCEPT !.px = [i \in 1..Len(PySlice(data.px, y1, y2)) |->
                            PySlice(PySlice(data.px, y1, y2)[i], x1, x2)]]

\* a library call on the image whose pixels the model leaves uncomputed
Opaque(data, op) == [data EXCEPT !.ops = Append(@, op)]

\* (width, height) of CentralCrop and RandomCrop
crop_size(size) ==
    IF size.list /\ Len(size.v) = 2 THEN size.v ELSE <<size.v[1], size.v[1]>>

\* the process() of each subclass: the set of results its random draws allow
process(obj, data) ==
    LET h == Len(data.px)
        w == Len(data.px[1])
    IN
    CASE obj.name = "hflip" -> {[data EXCEPT !.px = [i \in 1..h |-> Reverse(data.px[i])]]}
      [] obj.name = "vflip" -> {[data EXCEPT !.px = Reverse(data.px)]}
      [] obj.name = "gauss_noise" -> {Opaque(data, "gauss_noise")}
      [] obj.name = "snp_noise" -> {Opaque(data, "snp_noise")}
      [] obj.name = "blur" -> {Opaque(data, "cv2.blur")}
      [] obj.name = "resize" ->
            {Opaque(data, IF obj.attrs.size.list /\ Len(obj.attrs.size.v) = 2
                          THEN "resize_to_defined" ELSE "resize_by_min_edge")}
      [] obj.name = "ccrop" ->
            LET width == crop_size(obj.attrs.size)[1]
                height == crop_size(obj.attrs.size)[2]
                dx == (w - width) \div 2
                dy == (h - height) \div 2
            IN  {Window(data, dy, dy + height, dx, dx + width)}
      [] obj.name = "rcrop" ->
            LET width == crop_size(obj.attrs.size)[1]
                height == crop_size(obj.attrs.size)[2]
            IN  {Window(data, dy, dy + height, dx, dx + width) :
                    dx \in (IF w > width THEN 0..(w - width) ELSE {0}),
                    dy \in (IF h > height THEN 0..(h - height) ELSE {0})}
      [] obj.name = "rrotate" ->
            {IF angle = 0 THEN data ELSE Opaque(data, "rotate") :
                angle \in obj.attrs.interval.v[1]..obj.attrs.interval.v[2]}
      [] obj.name = "rbrightness" ->
            {[data EXCEPT !.px = [i \in 1..h |-> [j \in 1..w |->
                    IF 255 - data.px[i][j] < brightness
                    THEN 255 ELSE data.px[i][j] + brightness]]] :
                brightness \in obj.attrs.interval.v[1]..obj.attrs.interval.v[2]}
      [] obj.name = "rcontrast" -> {Opaque(data, "rcontrast")}
      [] obj.name = "normalize" -> {Opaque(data, "normalize")}
      [] obj.name = "to_pytorch" -> {Opaque(data, "to_pytorch")}

gate_strict(r, percentage) == r < percentage

\* the test of Augmentation.__call__ on the draw r = randint(1, 100)
gate(r, percentage) == r <= percentage

(***************************************************************************)
(* Augmentations: operations                                               *)
(***************************************************************************)
NoAug == [name |-> "none", percentage |-> Scalar(0), attrs |-> <<>>]
NoItem == [px |-> <<>>, ops |-> <<>>]
NoCall == [item |-> NoItem, r |-> 0, applied |-> FALSE, out |-> NoItem]

Init ==
    /\ fs = [p \in Paths |-> Absent]
    /\ alive = FALSE
    /\ preffix = None
    /\ files = <<>>
    /\ last = NoHist
    /\ snap = NoSnap
    /\ kept = Absent
    /\ aug = NoAug
    /\ config = <<>>
    /\ got = <<>>
    /\ call = NoCall

Next ==
    \/ \E c \in WeightsContents : WriteWeights(c)
    \/ \E c \in StateContents : WriteState(c)
    \/ \E pfx \in Prefixes : Construct(pfx)
    \/ Pack
    \/ Unpack
    \/ ClearFiles

Spec == Init /\ [][Next]_vars

\* augmentations_dict[name](config) for a one-key configuration
Build(name, frag) ==
    /\ config' = (name :> frag)
    /\ aug' = augmentations_dict(name, name :> frag)
    /\ got' = <<>>
    /\ call' = NoCall
    /\ UNCHANGED smVars

\* Augmentation.get_config()
GetConfig ==
    /\ aug # NoAug
    /\ got' = get_config(aug)
    /\ call' = NoCall
    /\ UNCHANGED <<aug, config, smVars>>

\* Augmentation.__call__(data)
Call(data, r) ==
    /\ aug # NoAug
    /\ IF gate(r, aug.percentage.v[1])
       THEN \E result \in process(aug, data) :
                call' = [item |-> data, r |-> r, applied |-> TRUE, out |-> result]
       ELSE call' = [item |-> data, r |-> r, applied |-> FALSE, out |-> data]
    /\ got' = <<>>
    /\ UNCHANGED <<aug, config, smVars>>

NextAug ==
    \/ \E name \in AugNames : \E frag \in Fragments(name) : Build(name, frag)
    \/ GetConfig
    \/ \E data \in Items : \E r \in 1..100 : Call(data, r)

SpecAug == Init /\ [][NextAug]_vars

(***************************************************************************)
(* StateManager: properties                                                *)
(***************************************************************************)
target == construct_result_file(preffix)
backup == suffixed(target, ".old")
prev_start_target == construct_result_file(<<"prev_start">>)
both_raw(f) == isfile(f, weights_file) /\ isfile(f, optimizer_state_file)
full_archive(w, s) ==
    Zip({<<"weights.pth", w>>, <<"state.pth", s>>})

\* C1: a successful pack() followed at once by unpack() on the same manager
\* succeeds and leaves both artifacts at weights_file() and
\* optimizer_state_file() with the contents they held before pack().
C1_RoundTrip ==
    (last.op = "unpack" /\ last.afterPack) =>
        /\ last.err = "none"
        /\ fs[weights_file] = Raw(snap[1])
        /\ fs[optimizer_state_file] = Raw(snap[2])

C1_Witness ==
    /\ last.op = "unpack" /\ last.afterPack
    /\ snap[1] \in WeightsContents /\ snap[2] \in StateContents
    /\ both_raw(fs)

\* C2: every pack() call (the one __init__ makes included) that finds a file
\* at its target path leaves, at <target>.old, exactly the file the target
\* held just before the call, whatever <target>.old held before; the call
\* succeeding or failing makes no difference.
C2_BackupRotation ==
    [][ /\ (last'.op = "pack" /\ isfile(fs, target))
            => /\ fs'[backup] = fs[target]
               /\ Cardinality({p \in DOMAIN fs' :
                      p[2] = target[2] \o ".old" /\ isfile(fs', p)}) = 1
        /\ (last'.op = "init" /\ both_raw(fs) /\ isfile(fs, prev_start_target))
            => fs'[suffixed(prev_start_target, ".old")] = fs[prev_start_target]
      ]_vars

C2_Witness ==
    /\ last.op = "pack"
    /\ fs[backup].kind = "zip" /\ Cardinality(fs[backup].members) = 2
    /\ fs[target].kind = "zip" /\ fs[target] # fs[backup]

\* C3: a pack() that fails on a missing source artifact leaves no newly
\* created archive lacking one or both members at the target path.
C3_NoPartialArchive ==
    (last.op = "pack" /\ last.err = "FileNotFoundError") =>
        ~(isfile(fs, target) /\ Cardinality(fs[target].members) < 2)

\* C4: clear_files() on a manager whose file tracking is empty completes
\* without error, deletes no file and leaves the tracking empty.
C4_ClearFilesSafe ==
    [][ (last'.op = "clear_files" /\ DOMAIN files = {})
            => (last'.err = "none" /\ fs' = fs /\ DOMAIN files' = {}) ]_vars

C8_StateMachine ==
    /\ DOMAIN get_files \in {{}, {"weights_file", "state_file"}}
    /\ (last.op = "unpack" /\ last.err = "none") =>
            /\ DOMAIN get_files = {"weights_file", "state_file"}
            /\ isfile(fs, get_files["weights_file"])
            /\ isfile(fs, get_files["state_file"])
    /\ (last.op = "unpack" /\ last.err # "none") => DOMAIN get_files = {}
    /\ (last.op = "clear_files" /\ last.err = "none") =>
            /\ DOMAIN get_files = {}
            /\ ~isfile(fs, unpack_files["weights_file"])
            /\ ~isfile(fs, unpack_files["state_file"])

\* C9: pack() removes a raw artifact only when it has archived both: a
\* successful pack() leaves neither raw file and an archive at the target
\* holding both under their base names; a failed pack() leaves every raw
\* artifact as it was.
C9_DeleteAfterArchiving ==
    [][ last'.op = "pack" =>
          /\ last'.err = "none" =>
                /\ ~isfile(fs', weights_file)
                /\ ~isfile(fs', optimizer_state_file)
                /\ fs'[target] = full_archive(fs[weights_file].data,
                                              fs[optimizer_state_file].data)
          /\ last'.err # "none" =>
                /\ fs'[weights_file] = fs[weights_file]
                /\ fs'[optimizer_state_file] = fs[optimizer_state_file]
      ]_vars

C9_Witness ==
    /\ last.op = "pack" /\ last.err = "FileNotFoundError"
    /\ isfile(fs, weights_file)
    /\ fs[target] = Zip({<<"weights.pth", fs[weights_file].data>>})

\* C10: the archive written by the last successful pack() is still at the
\* target path or at <target>.old after any number of failed pack() calls.
C10_LastArchiveSurvives ==
    kept # Absent => (fs[target] = kept \/ fs[backup] = kept)

(***************************************************************************)
(* Augmentations: properties                                               *)
(***************************************************************************)
Called == call.r # 0
ForcedNames == {"resize", "normalize", "to_pytorch"}

\* C6: __call__ draws r in 1..100 and returns process(item) exactly when
\* r <= percentage, the item itself otherwise; with percentage 100 every
\* call returns process(item), with percentage 0 every call returns the item.
C6_ProbabilityGate ==
    Called =>
        /\ call.r \in 1..100
        /\ call.applied <=> (call.r <= aug.percentage.v[1])
        /\ call.applied => call.out \in process(aug, call.item)
        /\ ~call.applied => call.out = call.item
        /\ aug.percentage.v[1] = 100 => call.applied
        /\ aug.percentage.v[1] = 0 => (~call.applied /\ call.out = call.item)

C6_Witness ==
    /\ Called /\ aug.name = "hflip" /\ aug.percentage.v[1] = 50
    /\ call.r = 50 /\ call.applied /\ call.out # call.item

\* C7 as stated: get_config() equals the configuration that constructed the
\* object, for every variant and every percentage.
C7_RoundTripEveryVariant ==
    got # <<>> => got = config

\* C7 amended: get_config() equals the constructing configuration for every
\* variant but Resize, Normalize and ToPyTorch; for those three it equals the
\* configuration with percentage replaced by 100.
C7_ConfigRoundTrip ==
    got # <<>> =>
        IF aug.name \in ForcedNames
        THEN got = (aug.name :>
                      [config[aug.name] EXCEPT !["percentage"] = Scalar(100)])
        ELSE got = config

C7_Witness ==
    /\ got # <<>> /\ aug.name = "gauss_noise"
    /\ config["gauss_noise"]["percentage"] = Scalar(50)
    /\ got = config

====
